---- MODULE Spec2Model ----
(***************************************************************************)
(* The two invoice generators of the repository:                           *)
(*   generate_french_invoice.py  (fpdf,      facture_test_invoicecomply)   *)
(*   generate_clean_invoice.py   (reportlab, facture_clean_invoicecomply)  *)
(* Two invocations (processes) run against one working directory and one   *)
(* wall clock.  A document is the sequence of text elements handed to the  *)
(* rendering library; the PDF byte encoding itself is the library's.       *)
(***************************************************************************)
EXTENDS Integers, Sequences, FiniteSets, TLC

\* ------------------------------------------------------------------ bounds
\* Clock ticks the model lets pass, and ticks in one day.
MaxTicks == 2
TicksPerDay == 2

Procs == {1, 2}
Variants == {"fpdf", "clean"}

\* ----------------------------------------------------------------- strings
Digit(d) == SubSeq("0123456789", d + 1, d + 1)

DigitVal(c) == CHOOSE d \in 0..9 : Digit(d) = c

\* s[i..j], empty when j < i
Sub(s, i, j) == IF j < i THEN "" ELSE SubSeq(s, i, j)

StartsWith(s, t) == Len(t) <= Len(s) /\ Sub(s, 1, Len(t)) = t

\* t occurs in s (a and b hold the two arguments, evaluated once)
Contains(s, t) ==
    \E a \in {s} : \E b \in {t} :
        \E i \in 1..(Len(a) - Len(b) + 1) : Sub(a, i, i + Len(b) - 1) = b

\* first index at which t occurs in s, 0 when it does not
Find(s, t) ==
    LET At(a, b) ==
            IF \E i \in 1..(Len(a) - Len(b) + 1) : Sub(a, i, i + Len(b) - 1) = b
            THEN CHOOSE i \in 1..(Len(a) - Len(b) + 1) :
                    /\ Sub(a, i, i + Len(b) - 1) = b
                    /\ \A j \in 1..(i - 1) : Sub(a, j, j + Len(b) - 1) # b
            ELSE 0
    IN  CHOOSE r \in {At(a, b) : a \in {s}, b \in {t}} : TRUE

\* str(n) / '%02d' % n / '%04d' % n
Pad2(n) == Digit((n \div 10) % 10) \o Digit(n % 10)

Pad4(n) == Pad2(n \div 100) \o Pad2(n % 100)

RECURSIVE ParseNat(_)
ParseNat(s) ==
    IF Len(s) = 0 THEN 0
    ELSE 10 * ParseNat(Sub(s, 1, Len(s) - 1)) + DigitVal(Sub(s, Len(s), Len(s)))

\* -------------------------------------------------------------- datetime
TermDays == 30

IsLeap(y) == y % 4 = 0 /\ (y % 100 # 0 \/ y % 400 = 0)

DaysInMonth(y, m) ==
    IF m = 2 THEN (IF IsLeap(y) THEN 29 ELSE 28)
    ELSE IF m \in {4, 6, 9, 11} THEN 30 ELSE 31

RECURSIVE DaysBeforeMonth(_, _)
DaysBeforeMonth(y, m) ==
    IF m = 1 THEN 0 ELSE DaysBeforeMonth(y, m - 1) + DaysInMonth(y, m - 1)

DaysBeforeYear(y) ==
    (y - 1) * 365 + (y - 1) \div 4 - (y - 1) \div 100 + (y - 1) \div 400

\* date(y, m, d).toordinal()
Ymd2Ord(y, m, d) == DaysBeforeYear(y) + DaysBeforeMonth(y, m) + d

\* date.fromordinal(n): the 400/100/4/1-year cycles give the year, then the
\* month whose days cover the remainder, then the day
Ord2Ymd(n) ==
    LET n0   == n - 1
        n400 == n0 \div 146097
        r400 == n0 % 146097
        n100 == r400 \div 36524
        r100 == r400 % 36524
        n4   == r100 \div 1461
        r4   == r100 % 1461
        n1   == r4 \div 365
        y    == n400 * 400 + n100 * 100 + n4 * 4 + n1 + 1
    IN  IF n1 = 4 \/ n100 = 4
        THEN [year |-> y - 1, month |-> 12, day |-> 31]
        ELSE LET r == n - DaysBeforeYear(y)
                 m == CHOOSE mm \in 1..12 :
                        /\ DaysBeforeMonth(y, mm) < r
                        /\ r <= DaysBeforeMonth(y, mm) + DaysInMonth(y, mm)
             IN  [year |-> y, month |-> m, day |-> r - DaysBeforeMonth(y, m)]

\* dt.strftime('%d/%m/%Y')
Strftime(dt) ==
    LET c == Ord2Ymd(dt.ord)
    IN  Pad2(c.day) \o "/" \o Pad2(c.month) \o "/" \o Pad4(c.year)

\* dt + timedelta(days=n)
PlusDays(dt, n) == [dt EXCEPT !.ord = dt.ord + n]

\* ---------------------------------------------------------------- amounts
\* An amount is a whole number of thousandths of a currency unit.
Unit == 10 * 100

\* the literal e.cc
Lit(e, c) == e * Unit + c * 10

FMul(a, b) == (a * b) \div Unit

\* f'{x:.2f}': two decimals, half to even
Fmt2(x) ==
    LET q == x \div 10
        r == x % 10
        c == IF r > 5 \/ (r = 5 /\ q % 2 = 1) THEN q + 1 ELSE q
    IN  ToString(c \div 100) \o "." \o Pad2(c % 100)

\* ------------------------------------------------------- document elements
\* pdf.cell(w, h, txt, ...) and a Table cell: the text as given
Cell(t) == [kind |-> "cell", text |-> t]

\* Paragraph(txt, style): the text is markup
Para(t) == [kind |-> "para", text |-> t]

RECURSIVE StripTags(_)
\* the text a Paragraph shows: its <b> and </b> tags removed
StripTags(t) ==
    IF Contains(t, "<b>")
    THEN LET i == Find(t, "<b>")
         IN  StripTags(Sub(t, 1, i - 1) \o Sub(t, i + 3, Len(t)))
    ELSE IF Contains(t, "</b>")
    THEN LET i == Find(t, "</b>")
         IN  StripTags(Sub(t, 1, i - 1) \o Sub(t, i + 4, Len(t)))
    ELSE t

\* the text of an element once rendered
Rendered(e) == IF e.kind = "para" THEN StripTags(e.text) ELSE e.text

\* ------------------------------------------- generate_french_invoice (fpdf)
\* FrenchInvoicePDF.header, called by add_page
FpdfHeader == <<Cell("FACTURE")>>

\* FrenchInvoicePDF.footer, called when the page is closed on output
FpdfFooter == <<Cell("Page " \o ToString(1))>>

\* fault variant: two digits of the issuer's SIRET transposed
FpdfCompanyTypo ==
    << Cell("TECH SOLUTIONS SARL"),
       Cell("123 Avenue des Champs-Élysées"),
       Cell("75008 Paris, France"),
       Cell("SIRET: 12345678901243"),
       Cell("TVA: FR12345678901"),
       Cell("Tél: 01 42 86 83 26") >>

FpdfCompany ==
    << Cell("TECH SOLUTIONS SARL"),
       Cell("123 Avenue des Champs-Élysées"),
       Cell("75008 Paris, France"),
       Cell("SIRET: 12345678901234"),
       Cell("TVA: FR12345678901"),
       Cell("Tél: 01 42 86 83 26") >>

FpdfInvoiceNo == <<Cell("FACTURE N° FAC-2024-001234")>>

FpdfDate(now) == <<Cell("Date: " \o Strftime(now))>>

FpdfDue(now) == <<Cell("Date d'échéance: " \o Strftime(PlusDays(now, TermDays)))>>

FpdfClient ==
    << Cell("FACTURÉ À:"),
       Cell("CLIENT ENTREPRISE SAS"),
       Cell("456 Avenue des Clients"),
       Cell("69000 Lyon, France"),
       Cell("SIRET: 98765432109876") >>

FpdfTableHeader ==
    << Cell("Description"), Cell("Qté"), Cell("Prix unitaire"), Cell("Total HT") >>

services ==
    << [desc |-> "Développement site web", qty |-> 1,
        unit_price |-> Lit(1000, 0), total |-> Lit(1000, 0)],
       [desc |-> "Maintenance mensuelle", qty |-> 3,
        unit_price |-> Lit(150, 0), total |-> Lit(450, 0)],
       [desc |-> "Formation utilisateurs", qty |-> 2,
        unit_price |-> Lit(200, 0), total |-> Lit(400, 0)] >>

\* fault variant: the former 19.6% rate
tva_rate_196 == Lit(0, 19) + 6

tva_rate == Lit(0, 20)

RECURSIVE ServicesLoop(_, _)
\* the for loop over services: the cells of each row, and total_ht accumulated
ServicesLoop(rows, acc) ==
    IF rows = <<>> THEN acc
    ELSE LET s == Head(rows)
         IN  ServicesLoop(Tail(rows),
                [cells |-> acc.cells \o
                            << Cell(s.desc),
                               Cell(ToString(s.qty)),
                               Cell(Fmt2(s.unit_price) \o " EUR"),
                               Cell(Fmt2(s.total) \o " EUR") >>,
                 total_ht |-> acc.total_ht + s.total])

FpdfTotals(total_ht) ==
    LET tva_amount == FMul(total_ht, tva_rate)
        total_ttc  == total_ht + tva_amount
    IN  << Cell("Sous-total HT:"), Cell(Fmt2(total_ht) \o " EUR"),
           Cell("TVA (20%):"),     Cell(Fmt2(tva_amount) \o " EUR"),
           Cell("TOTAL TTC:"),     Cell(Fmt2(total_ttc) \o " EUR") >>

FpdfTerms ==
    << Cell("Conditions de paiement: 30 jours"),
       Cell("Mode de paiement: Virement bancaire") >>

FpdfLegal ==
    << Cell("En cas de retard de paiement, seront exigibles une indemnite de 40 EUR pour frais de recouvrement"),
       Cell("et des intérêts de retard au taux de 10% (art. L441-6 du Code de commerce)."),
       Cell("Aucun escompte pour paiement anticipé.") >>

\* ------------------------------------ create_clean_french_invoice (reportlab)
CleanTitle == <<Para("FACTURE")>>

CleanCompany ==
    << Para("<b>TECH SOLUTIONS SARL</b>"),
       Para("123 Avenue des Champs-Élysées"),
       Para("75008 Paris, France"),
       Para("SIRET: 12345678901234"),
       Para("TVA: FR12345678901"),
       Para("Tél: 01 42 86 83 26") >>

CleanInvoiceNo == <<Para("<b>FACTURE N° FAC-2024-001234</b>")>>

CleanDate(now) == <<Para("Date: " \o Strftime(now))>>

CleanDue(now) == <<Para("Date d'échéance: " \o Strftime(PlusDays(now, TermDays)))>>

CleanClient ==
    << Para("<b>FACTURÉ À:</b>"),
       Para("CLIENT ENTREPRISE SAS"),
       Para("456 Avenue des Clients"),
       Para("69000 Lyon, France"),
       Para("SIRET: 98765432109876") >>

\* fault variant: the second row's total does not match 3 x 150.00
data_bad_row ==
    << Cell("Description"), Cell("Qté"), Cell("Prix unitaire"), Cell("Total HT"),
       Cell("Développement site web"), Cell("1"), Cell("1000.00 EUR"), Cell("1000.00 EUR"),
       Cell("Maintenance mensuelle"), Cell("3"), Cell("150.00 EUR"), Cell("400.00 EUR"),
       Cell("Formation utilisateurs"), Cell("2"), Cell("200.00 EUR"), Cell("400.00 EUR") >>

\* data: the header row, then one row per service
data ==
    << Cell("Description"), Cell("Qté"), Cell("Prix unitaire"), Cell("Total HT"),
       Cell("Développement site web"), Cell("1"), Cell("1000.00 EUR"), Cell("1000.00 EUR"),
       Cell("Maintenance mensuelle"), Cell("3"), Cell("150.00 EUR"), Cell("450.00 EUR"),
       Cell("Formation utilisateurs"), Cell("2"), Cell("200.00 EUR"), Cell("400.00 EUR") >>

totals_data ==
    << Cell("Sous-total HT:"), Cell("1850.00 EUR"),
       Cell("TVA (20%):"), Cell("370.00 EUR"),
       Cell("<b>TOTAL TTC:</b>"), Cell("<b>2220.00 EUR</b>") >>

CleanTerms ==
    << Para("<b>Conditions de paiement:</b> 30 jours"),
       Para("<b>Mode de paiement:</b> Virement bancaire") >>

CleanLegal ==
    << Para("En cas de retard de paiement, seront exigibles une indemnité de 40 EUR pour frais de recouvrement"),
       Para("et des intérêts de retard au taux de 10% (art. L441-6 du Code de commerce)."),
       Para("Aucun escompte pour paiement anticipé.") >>

\* ------------------------------------------------------ the two generators
\* what is emitted up to and including the issue date (first clock read)
StoryToDate(v, now) ==
    IF v = "fpdf"
    THEN FpdfHeader \o FpdfCompany \o FpdfInvoiceNo \o FpdfDate(now)
    ELSE CleanTitle \o CleanCompany \o CleanInvoiceNo \o CleanDate(now)

\* what is emitted from the due date (second clock read) to the end
StoryFromDue(v, now) ==
    IF v = "fpdf"
    THEN LET loop == ServicesLoop(services, [cells |-> <<>>, total_ht |-> 0])
         IN  FpdfDue(now) \o FpdfClient \o FpdfTableHeader \o loop.cells
                \o FpdfTotals(loop.total_ht) \o FpdfTerms \o FpdfLegal
    ELSE CleanDue(now) \o CleanClient \o data \o totals_data
                \o CleanTerms \o CleanLegal

\* output_file / filename
Filename(v) ==
    IF v = "fpdf" THEN "facture_test_invoicecomply.pdf"
    ELSE "facture_clean_invoicecomply.pdf"

Filenames == {Filename(v) : v \in Variants}

\* the document handed to the file by pdf.output / doc.build
Output(v, story) == IF v = "fpdf" THEN story \o FpdfFooter ELSE story

\* ------------------------------------------------------------- file system
NoFile == [exists |-> FALSE, data |-> <<>>]

\* fault variant: open(name, 'ab'), the file is kept and the handle is at its end
OpenAB(f) == [file |-> [exists |-> TRUE, data |-> f.data], pos |-> Len(f.data)]

\* open(name, 'wb'): the file is created or truncated, the handle is at 0
OpenWB(f) == [file |-> [exists |-> TRUE, data |-> <<>>], pos |-> 0]

\* fault variant: every write lands at the end of the file (O_APPEND)
WriteAppend(old, at, buf) == old \o buf

\* f.write(buf) at the handle's position: what lies beyond the buffer stays
WriteAt(old, at, buf) ==
    SubSeq(old, 1, at) \o buf \o SubSeq(old, at + Len(buf) + 1, Len(old))

RECURSIVE TextLen(_)
TextLen(elems) ==
    IF elems = <<>> THEN 0 ELSE Len(Head(elems).text) + TextLen(Tail(elems))

\* os.path.getsize(name)
GetSizeOf(f) == TextLen(f.data)

\* ----------------------------------------------------------------- console
Banner(v) ==
    IF v = "fpdf"
    THEN "Génération d'une facture française pour InvoiceComply..."
    ELSE "Génération d'une facture française propre avec ReportLab..."

GeneratedLine(v) == "Facture générée: " \o Filename(v)

SizeLine(n) == "Taille du fichier: " \o ToString(n) \o " bytes"

\* fault variant: the recap states a grand total the document does not show
RecapStale ==
    << "", "Contenu de la facture:",
       "- Émetteur: TECH SOLUTIONS SARL",
       "- SIRET émetteur: 12345678901234",
       "- TVA émetteur: FR12345678901",
       "- Client: CLIENT ENTREPRISE SAS",
       "- SIRET client: 98765432109876",
       "- Numéro: FAC-2024-001234",
       "- Total HT: 1850.00 EUR",
       "- TVA 20%: 370.00 EUR",
       "- Total TTC: 2200.00 EUR",
       "- Conditions: 30 jours" >>

Recap ==
    << "", "Contenu de la facture:",
       "- Émetteur: TECH SOLUTIONS SARL",
       "- SIRET émetteur: 12345678901234",
       "- TVA émetteur: FR12345678901",
       "- Client: CLIENT ENTREPRISE SAS",
       "- SIRET client: 98765432109876",
       "- Numéro: FAC-2024-001234",
       "- Total HT: 1850.00 EUR",
       "- TVA 20%: 370.00 EUR",
       "- Total TTC: 2220.00 EUR",
       "- Conditions: 30 jours" >>

\* the clean variant's closing lines
CleanClosing ==
    << "", "Cette facture devrait être parfaitement lisible par pdf-parse!" >>

\* ------------------------------------------------------------------- state
VARIABLES
    clock,      \* the wall clock: the day's ordinal at the start, ticks since
    fs,         \* the working directory: file name -> file
    variant,    \* which generator each invocation runs
    pc,         \* where each invocation is
    story,      \* the document each invocation has assembled so far
    pos,        \* the position of each invocation's open file handle
    size,       \* the file size each invocation read back (-1: not read)
    console,    \* the lines each invocation has printed
    err,        \* the exception that ended the invocation, if any
    exit        \* the exit status of each invocation

vars == <<clock, fs, variant, pc, story, pos, size, console, err, exit>>

\* the days the clock may start on
StartDays ==
    { Ymd2Ord(2024, 1, 15), Ymd2Ord(2024, 1, 31),
      Ymd2Ord(2023, 1, 30), Ymd2Ord(2023, 12, 31) }

\* datetime.now()
Now ==
    [ord |-> clock.ord + clock.tick \div TicksPerDay,
     tod |-> clock.tick % TicksPerDay]

Init ==
    /\ clock \in [ord : StartDays, tick : {0}]
    /\ fs = [n \in Filenames |-> NoFile]
    /\ variant \in [Procs -> Variants]
    /\ pc = [p \in Procs |-> "idle"]
    /\ story = [p \in Procs |-> <<>>]
    /\ pos = [p \in Procs |-> 0]
    /\ size = [p \in Procs |-> -1]
    /\ console = [p \in Procs |-> <<>>]
    /\ err = [p \in Procs |-> "none"]
    /\ exit = [p \in Procs |-> "running"]

\* time passes
Tick ==
    /\ clock.tick < MaxTicks
    /\ clock' = [clock EXCEPT !.tick = @ + 1]
    /\ UNCHANGED <<fs, variant, pc, story, pos, size, console, err, exit>>

\* main: the opening print
Start(p) ==
    /\ pc[p] = "idle"
    /\ console' = [console EXCEPT ![p] = <<Banner(variant[p])>>]
    /\ pc' = [pc EXCEPT ![p] = "issue"]
    /\ UNCHANGED <<clock, fs, variant, story, pos, size, err, exit>>

\* the generator up to the issue date: the first datetime.now()
BuildToDate(p) ==
    /\ pc[p] = "issue"
    /\ story' = [story EXCEPT ![p] = StoryToDate(variant[p], Now)]
    /\ pc' = [pc EXCEPT ![p] = "due"]
    /\ UNCHANGED <<clock, fs, variant, pos, size, console, err, exit>>

\* the generator from the due date on: the second datetime.now()
BuildFromDue(p) ==
    /\ pc[p] = "due"
    /\ story' = [story EXCEPT ![p] = @ \o StoryFromDue(variant[p], Now)]
    /\ pc' = [pc EXCEPT ![p] = "open"]
    /\ UNCHANGED <<clock, fs, variant, pos, size, console, err, exit>>

\* pdf.output / doc.build opens the output file
OpenOk(p) ==
    /\ pc[p] = "open"
    /\ LET o == OpenWB(fs[Filename(variant[p])])
       IN  /\ fs' = [fs EXCEPT ![Filename(variant[p])] = o.file]
           /\ pos' = [pos EXCEPT ![p] = o.pos]
    /\ pc' = [pc EXCEPT ![p] = "write"]
    /\ UNCHANGED <<clock, variant, story, size, console, err, exit>>

\* fault variant: the error is swallowed (try/except: pass) and main carries on
OnWriteErrorCaught(v) == IF v = "fpdf" THEN "report" ELSE "size"

\* where an invocation goes when the write raises: nothing catches it
OnWriteError(v) == "crashed"

\* the output file cannot be written (e.g. PermissionError)
OpenFail(p) ==
    /\ pc[p] = "open"
    /\ err' = [err EXCEPT ![p] = "OSError"]
    /\ pc' = [pc EXCEPT ![p] = OnWriteError(variant[p])]
    /\ exit' = [exit EXCEPT ![p] = "1"]
    /\ UNCHANGED <<clock, fs, variant, story, pos, size, console>>

\* pdf.output / doc.build writes the document and returns
Write(p) ==
    /\ pc[p] = "write"
    /\ LET n   == Filename(variant[p])
           buf == Output(variant[p], story[p])
       IN  /\ fs' = [fs EXCEPT ![n].data = WriteAt(@, pos[p], buf)]
           /\ pos' = [pos EXCEPT ![p] = @ + Len(buf)]
    /\ pc' = [pc EXCEPT ![p] = IF variant[p] = "fpdf" THEN "report" ELSE "size"]
    /\ UNCHANGED <<clock, variant, story, size, console, err, exit>>

\* fault variant: both scripts print the clean variant's closing lines
SummaryTailClosing(v, n) == <<SizeLine(n)>> \o Recap \o CleanClosing

\* the lines main prints once it has the size
SummaryTail(v, n) ==
    <<SizeLine(n)>> \o Recap \o (IF v = "fpdf" THEN <<>> ELSE CleanClosing)

\* print(f"Facture générée: ..."): in the fpdf variant before the size is
\* read, in the clean variant after, followed by the rest of the summary
Report(p) ==
    /\ pc[p] = "report"
    /\ IF variant[p] = "fpdf"
       THEN /\ console' = [console EXCEPT ![p] = @ \o <<GeneratedLine("fpdf")>>]
            /\ pc' = [pc EXCEPT ![p] = "size"]
            /\ exit' = exit
       ELSE /\ console' = [console EXCEPT ![p] =
                    @ \o <<GeneratedLine("clean")>> \o SummaryTail("clean", size[p])]
            /\ pc' = [pc EXCEPT ![p] = "done"]
            /\ exit' = [exit EXCEPT ![p] = "0"]
    /\ UNCHANGED <<clock, fs, variant, story, pos, size, err>>

\* os.path.getsize(output_file): in the fpdf variant inside the print of the
\* size line, followed by the rest of the summary
GetSize(p) ==
    /\ pc[p] = "size"
    /\ LET n == GetSizeOf(fs[Filename(variant[p])])
       IN  /\ size' = [size EXCEPT ![p] = n]
           /\ IF variant[p] = "fpdf"
              THEN /\ console' = [console EXCEPT ![p] = @ \o SummaryTail("fpdf", n)]
                   /\ pc' = [pc EXCEPT ![p] = "done"]
                   /\ exit' = [exit EXCEPT ![p] = "0"]
              ELSE /\ console' = console
                   /\ pc' = [pc EXCEPT ![p] = "report"]
                   /\ exit' = exit
    /\ UNCHANGED <<clock, fs, variant, story, pos, err>>

Step(p) ==
    \/ BuildToDate(p)
    \/ BuildFromDue(p)
    \/ OpenOk(p)
    \/ OpenFail(p)
    \/ Write(p)
    \/ Report(p)
    \/ GetSize(p)

\* invocations start at any time, also while another one runs
Next ==
    \/ Tick
    \/ \E p \in Procs : Start(p)
    \/ \E p \in Procs : Step(p)

Spec == Init /\ [][Next]_vars

\* run 2 is started once run 1 has ended: two runs in succession
StartInSuccession(p) ==
    /\ \A q \in Procs : q < p => pc[q] \in {"done", "crashed"}
    /\ Start(p)

NextSeq ==
    \/ Tick
    \/ \E p \in Procs : StartInSuccession(p)
    \/ \E p \in Procs : Step(p)

SpecSeq == Init /\ [][NextSeq]_vars

\* ------------------------------------------------- reading a document back
\* Both generators emit 42 elements in the same layout:
\*   1 title, 2-7 issuer, 8 invoice number, 9 issue date, 10 due date,
\*   11-15 client, 16-19 table header, 20-31 three rows of four cells,
\*   32-37 totals (label, value), 38-39 payment terms, 40-42 legal notice.
Built(p) == pc[p] \in {"open", "write", "report", "size", "done", "crashed"}

Other(p) == Procs \ {p}

Last(s) == s[Len(s)]

ExistingFiles == {n \in Filenames : fs[n].exists}

\* the value a text field carries: markup and a leading label removed
FieldValue(e) ==
    LET t == StripTags(e.text)
    IN  IF Contains(t, ": ") THEN Sub(t, Find(t, ": ") + 2, Len(t))
        ELSE IF StartsWith(t, "FACTURE N° ") THEN Sub(t, Len("FACTURE N° ") + 1, Len(t))
        ELSE t

\* "1850.00 EUR" -> "1850.00"
AmountText(e) ==
    LET t == StripTags(e.text)
    IN  Sub(t, 1, Find(t, " EUR") - 1)

\* "1850.00" -> 185000 (hundredths)
ParseCents(t) ==
    LET i == Find(t, ".")
    IN  ParseNat(Sub(t, 1, i - 1)) * 100 + ParseNat(Sub(t, i + 1, Len(t)))

\* "... dd/mm/YYYY" -> the day's ordinal
ParseDate(t) ==
    LET d == Sub(t, Len(t) - 9, Len(t))
    IN  Ymd2Ord(ParseNat(Sub(d, 7, 10)), ParseNat(Sub(d, 4, 5)), ParseNat(Sub(d, 1, 2)))

RowBase(r) == 19 + 4 * (r - 1)

RowQty(st, r) == ParseNat(st[RowBase(r) + 2].text)

RowUnit(st, r) == ParseCents(AmountText(st[RowBase(r) + 3]))

RowTotal(st, r) == ParseCents(AmountText(st[RowBase(r) + 4]))

SubtotalText(st) == AmountText(st[33])

TaxText(st) == AmountText(st[35])

GrandTotalText(st) == AmountText(st[37])

\* ------------------------------------------------------------------ claims

\* C1: in both variants the document shows subtotal 1850.00, tax 370.00 and
\* grand total 2220.00 (in the fpdf variant these come out of the services
\* loop, total_ht * 0.20 and total_ht + tva_amount).
C1_Totals ==
    \A p \in Procs : Built(p) =>
        /\ SubtotalText(story[p]) = "1850.00"
        /\ TaxText(story[p]) = "370.00"
        /\ GrandTotalText(story[p]) = "2220.00"

C1_Witness ==
    /\ variant[1] = "fpdf" /\ variant[2] = "clean"
    /\ pc[1] = "done" /\ pc[2] = "done"
    /\ story[1][37].text = "2220.00 EUR"

\* C2: the due date written to a document is the issue date written to the
\* same document plus exactly 30 days, whenever the two clock reads happen.
C2_DueIsIssuePlus30 ==
    \A p \in Procs : Built(p) =>
        ParseDate(story[p][10].text) = ParseDate(story[p][9].text) + 30

\* C3: every rendered line total is quantity x unit price, the rendered
\* subtotal is the sum of the rendered line totals, and the rendered grand
\* total is the subtotal x 1.20.
C3_Consistent ==
    \A p \in Procs : Built(p) =>
        LET st == story[p]
            sub == ParseCents(SubtotalText(st))
        IN  /\ \A r \in 1..3 : RowTotal(st, r) = RowQty(st, r) * RowUnit(st, r)
            /\ sub = RowTotal(st, 1) + RowTotal(st, 2) + RowTotal(st, 3)
            /\ ParseCents(GrandTotalText(st)) * 100 = sub * 120

C3_Witness ==
    /\ variant[1] = "clean" /\ variant[2] = "fpdf"
    /\ Built(1) /\ Built(2)
    /\ RowQty(story[1], 2) = 3 /\ RowTotal(story[2], 2) = 45000

\* C4: after a successful run the text handed to the renderer contains each
\* of the ten required literal strings.
RequiredStrings ==
    { "TECH SOLUTIONS SARL", "12345678901234", "FR12345678901",
      "CLIENT ENTREPRISE SAS", "98765432109876", "FAC-2024-001234",
      "1850.00", "370.00", "2220.00", "30 jours" }

C4_RequiredText ==
    \A p \in Procs : pc[p] = "done" =>
        LET doc == Output(variant[p], story[p])
        IN  \A s \in RequiredStrings :
                \E i \in 1..Len(doc) : Contains(doc[i].text, s)

C4_Witness ==
    /\ pc[1] = "done" /\ pc[2] = "done"
    /\ variant[1] # variant[2]
    /\ \A p \in Procs : fs[Filename(variant[p])].data = Output(variant[p], story[p])

\* C5: two runs of the same generator in succession: the second run can open
\* the existing artifact, and once both have ended successfully the one file
\* under the fixed name holds the second run's document alone (overwritten,
\* not appended to), which is what a single run leaves.
C5_Overwrite ==
    /\ (pc[2] = "open" /\ fs[Filename(variant[2])].exists) => ENABLED OpenOk(2)
    /\ (variant[1] = variant[2] /\ pc[1] = "done" /\ pc[2] \in {"report", "size", "done"}) =>
            /\ ExistingFiles = {Filename(variant[2])}
            /\ fs[Filename(variant[2])].data = Output(variant[2], story[2])
            /\ (story[1] = story[2] =>
                    fs[Filename(variant[2])].data = Output(variant[1], story[1]))
            /\ (pc[2] = "done" => exit[2] = "0" /\ size[2] = size[1])

C5_Witness ==
    /\ variant[1] = variant[2]
    /\ pc[1] = "done" /\ pc[2] = "done"
    /\ story[1] # story[2]
    /\ fs[Filename(variant[2])].data # Output(variant[1], story[1])

\* C6 as stated: a run alone in a clean directory leaves exactly one file, of
\* non-zero size, and its console output ends in a confirmation line.
ConfirmationLines(v) ==
    { GeneratedLine(v),
      "Cette facture devrait être parfaitement lisible par pdf-parse!" }

Alone(p) == \A q \in Other(p) : pc[q] = "idle"

C6_EndsInConfirmation ==
    \A p \in Procs : (pc[p] = "done" /\ Alone(p)) =>
        /\ ExistingFiles = {Filename(variant[p])}
        /\ GetSizeOf(fs[Filename(variant[p])]) > 0
        /\ Last(console[p]) \in ConfirmationLines(variant[p])

\* C6 as amended: one opening line is printed before the file exists; every
\* later line is printed once the file is written, starting with the
\* confirmation line "Facture générée: <file>"; a successful run leaves
\* exactly one file, of non-zero size, and the last line printed is the closing
\* sentence in the clean variant and the last recap line in the fpdf variant.
C6_SummaryAfterWrite ==
    \A p \in Procs : Alone(p) =>
        LET n == Filename(variant[p])
        IN  /\ pc[p] \in {"issue", "due", "open"} =>
                    console[p] = <<Banner(variant[p])>> /\ ExistingFiles = {}
            /\ Len(console[p]) > 1 =>
                    /\ console[p][1] = Banner(variant[p])
                    /\ console[p][2] = GeneratedLine(variant[p])
                    /\ fs[n].data = Output(variant[p], story[p])
                    /\ GetSizeOf(fs[n]) > 0
            /\ pc[p] = "done" =>
                    /\ ExistingFiles = {n}
                    /\ GetSizeOf(fs[n]) > 0
                    /\ exit[p] = "0"
                    /\ Last(console[p]) =
                         (IF variant[p] = "fpdf" THEN "- Conditions: 30 jours"
                          ELSE "Cette facture devrait être parfaitement lisible par pdf-parse!")

C6_Witness ==
    /\ variant[1] = "fpdf" /\ pc[1] = "done" /\ pc[2] = "idle"
    /\ Last(console[1]) = "- Conditions: 30 jours"
    /\ ExistingFiles = {"facture_test_invoicecomply.pdf"}

\* C7: when the write fails nothing catches it: the invocation has ended with
\* a non-zero status, it takes no further step, no size was read and nothing
\* was printed after the opening line.
C7_FailurePropagates ==
    \A p \in Procs : err[p] # "none" =>
        /\ pc[p] = "crashed"
        /\ exit[p] = "1"
        /\ size[p] = -1
        /\ console[p] = <<Banner(variant[p])>>
        /\ ~ENABLED Step(p)
        /\ ~ENABLED Start(p)

C7_Witness ==
    /\ err[1] = "OSError" /\ pc[1] = "crashed"
    /\ pc[2] = "done" /\ variant[1] # variant[2]
    /\ ~fs[Filename(variant[1])].exists

\* C8: for the same issue date the text fields the two generators emit into
\* the body (everything after the title) are the same, string for string.
BodyTexts(st) == [i \in 1..(Len(st) - 1) |-> Rendered(st[i + 1])]

C8_SameContent ==
    \A p, q \in Procs :
        (/\ variant[p] = "fpdf" /\ variant[q] = "clean"
         /\ Built(p) /\ Built(q)
         /\ story[p][9].text = story[q][9].text
         /\ story[p][10].text = story[q][10].text) =>
            BodyTexts(story[p]) = BodyTexts(story[q])

\* C9 as stated: after a successful run the console shows the size read back
\* and restates every invoice field: issuer name, address, identifiers and
\* phone, client name, address and identifier, invoice number, issue date, due
\* date, each line item, and the three totals.
RecapValue(line) == Sub(line, Find(line, ": ") + 2, Len(line))

\* the values the recap lines ("- label: value") state
RecapValues(p) ==
    { RecapValue(console[p][k]) :
        k \in {j \in 1..Len(console[p]) : StartsWith(console[p][j], "- ")} }

InvoiceFields == (2..10) \cup (12..15) \cup {20, 24, 28} \cup {33, 35, 37}

C9_RestatesEveryField ==
    \A p \in Procs : pc[p] = "done" =>
        /\ console[p][3] = SizeLine(size[p])
        /\ \A i \in InvoiceFields : FieldValue(story[p][i]) \in RecapValues(p)

\* C9 as amended: the console shows the size read back from the file system
\* and restates only the issuer's name, SIRET and TVA number, the client's
\* name and SIRET, the invoice number, the three totals (with the 20% rate)
\* and the payment term; addresses, phone, issue date, due date and line items
\* are not restated.  Every value the recap states is a value the document
\* shows.
RestatedFields == {2, 5, 6, 8, 12, 15, 33, 35, 37, 38}

C9_RestatesSummaryFields ==
    \A p \in Procs : pc[p] = "done" =>
        /\ console[p][3] = SizeLine(size[p])
        /\ (\A q \in Other(p) : pc[q] = "idle" \/ variant[q] # variant[p]) =>
                size[p] = GetSizeOf(fs[Filename(variant[p])])
        /\ \E k \in 1..Len(console[p]) : StartsWith(console[p][k], "- TVA 20%: ")
        /\ \A vals \in {RecapValues(p)} :
                /\ \A i \in RestatedFields : FieldValue(story[p][i]) \in vals
                /\ \A i \in InvoiceFields \ RestatedFields :
                        FieldValue(story[p][i]) \notin vals
                /\ vals = {FieldValue(story[p][i]) : i \in RestatedFields}

C9_Witness ==
    /\ pc[1] = "done" /\ pc[2] = "idle" /\ variant[1] = "clean"
    /\ size[1] > 0
    /\ "2220.00 EUR" \in RecapValues(1)
    /\ "Tél: 01 42 86 83 26" = StripTags(story[1][7].text)

\* C10: two concurrent invocations of one generator write the same file with
\* no lock.  A write that completes leaves exactly the writer's complete
\* document, the file changes only when an invocation opens or writes it, so
\* once both have finished it holds the complete document of the last writer
\* and never a mixture; the size an invocation reports is the size of the file
\* at the moment it reads it.
SameFile(p, q) == p # q /\ variant[p] = variant[q]

C10_Step ==
    /\ \A p \in Procs : (pc[p] = "write" /\ pc'[p] # "write") =>
            fs'[Filename(variant[p])].data = Output(variant[p], story[p])
    /\ \A n \in Filenames : fs'[n] # fs[n] =>
            \E p \in Procs : /\ Filename(variant[p]) = n
                             /\ pc[p] \in {"open", "write"}
                             /\ pc'[p] # pc[p]
    /\ \A p \in Procs : (pc[p] = "size" /\ pc'[p] # "size") =>
            size'[p] = GetSizeOf(fs[Filename(variant[p])])
    /\ \A p, q \in Procs :
            (SameFile(p, q) /\ pc'[p] = "done" /\ pc'[q] = "done") =>
                fs'[Filename(variant[p])].data \in
                    {Output(variant[p], story[p]), Output(variant[q], story[q])}

C10_NoLock ==
    \A p, q \in Procs :
        (SameFile(p, q) /\ pc[p] = "write" /\ pc[q] = "open") => ENABLED OpenOk(q)

====
